---- MODULE Spec2Model ----
(***************************************************************************)
(* A model of adopy's psychometric-function engine (adopy/tasks/psi.py)    *)
(* and of its Task / Model descriptors (adopy/base/_meta.py).              *)
(*                                                                         *)
(* Probabilities are kept as integers: rates in quarters (guess_rate = 1   *)
(* stands for 1/4), link values in halves, likelihoods in eighths.  The    *)
(* posterior is kept as integer weights exp(l) up to a common factor, and  *)
(* the mutual information in fixed point, scaled by a positive factor      *)
(* that is the same for every design row (so the argmax is unchanged).     *)
(* Indices are 0-based as in the code: row i of a grid g is g[i + 1].      *)
(***************************************************************************)
EXTENDS Integers, Sequences, FiniteSets, TLC

\* ------------------------------------------------------------- bounds
\* Largest number of rows of a design grid; a grid of n rows holds the
\* stimulus values 0 .. n - 1 (in quarters).
MaxND == 3
\* Rows of the grid of the staircase scenario (spec section 8, scenario 3).
ScenarioRows == 11
\* Largest staircase step size given at construction or to the setter.
MaxStep == 2
\* Updates made in one run of the general specification.
MaxUpdates == 2
\* Keys of a mapping given to extract_designs or extract_params.
MaxKeys == 3
\* Staircase selections made in a row.
MaxCalls == 3
\* Descriptor constructions in a run.
MaxConstructs == 3
\* Updates made on a pair of engines.
PairUpdates == 1
\* Largest weight of a user-supplied prior.
MaxPrior == 3
\* Fractional bits of the fixed-point logarithm, and bits of its mantissa.
LogBits == 10
MantBits == 12

\* ------------------------------------------------------------ numerics
Max(a, b) == IF a >= b THEN a ELSE b
Min(a, b) == IF a <= b THEN a ELSE b
Abs(a) == IF a >= 0 THEN a ELSE 0 - a

RECURSIVE Pow2(_)
Pow2(k) == IF k = 0 THEN 1 ELSE 2 * Pow2(k - 1)

RECURSIVE ILog2(_)
\* floor(log2 n) for n >= 1
ILog2(n) == IF n < 2 THEN 0 ELSE 1 + ILog2(n \div 2)

RECURSIVE GCD(_, _)
GCD(a, b) == IF b = 0 THEN a ELSE GCD(b, a % b)

\* 1 in the fixed point of the logarithm and of its mantissa
LogOne == Pow2(LogBits)
MantOne == Pow2(MantBits)

RECURSIVE Mantissa(_)
\* n scaled into [MantOne, 2 * MantOne)
Mantissa(n) ==
    IF n >= 2 * MantOne THEN Mantissa(n \div 2)
    ELSE IF n < MantOne THEN Mantissa(n * 2)
    ELSE n

RECURSIVE LogFrac(_, _)
\* the fractional bits of log2 of the mantissa m, by squaring, from the bit
\* worth `unit` down
LogFrac(m, unit) ==
    IF unit = 0 THEN 0
    ELSE LET sq == (m * m) \div MantOne
         IN  IF sq >= 2 * MantOne
             THEN unit + LogFrac(sq \div 2, unit \div 2)
             ELSE LogFrac(sq, unit \div 2)

\* log2(n) * LogOne, rounded down, for n >= 1
Log(n) == ILog2(n) * LogOne + LogFrac(Mantissa(n), LogOne \div 2)

\* Log on the arguments below MantOne, computed once
LogTable == [n \in 1..MantOne |-> Log(n)]
LogOf(n) == IF n <= MantOne THEN LogTable[n] ELSE Log(n)

\* x * log x with the convention 0 log 0 = 0
XLogX(x) == IF x = 0 THEN 0 ELSE x * LogOf(x)

RECURSIVE SumTo(_, _)
\* f[1] + ... + f[n]
SumTo(f, n) == IF n = 0 THEN 0 ELSE f[n] + SumTo(f, n - 1)
Sum(f) == SumTo(f, Len(f))

RECURSIVE GCDTo(_, _)
GCDTo(f, n) == IF n = 0 THEN 0 ELSE GCD(f[n], GCDTo(f, n - 1))

\* ------------------------------------------------- task and model (psi)
\* TaskPsi: responses=[0, 1]
Responses == <<0, 1>>
ResponseSet == {Responses[j] : j \in 1..Len(Responses)}

ModelNames == {"Logistic", "Weibull", "Normal"}
\* The models an engine is built on here.  ModelWeibull.compute passes its
\* arguments as ModelLogistic.compute does and the two links agree at this
\* resolution, so an engine on ModelWeibull behaves as the one on ModelLogistic.
EngineModels == {"Logistic", "Normal"}

\* The link functions inv_logit, gumbel_l.cdf and norm.cdf at the model's
\* resolution: a value in halves from the sign of the argument.
Link(x) == IF x < 0 THEN 0 ELSE IF x = 0 THEN 1 ELSE 2

\* _ModelPsi._compute: gr + (1 - gr - lr) * func(sl * (st - th)), in eighths;
\* st, th, sl, gr, lr are in quarters.
Compute(st, th, sl, gr, lr) == 2 * gr + (4 - gr - lr) * Link(sl * (st - th))

\* ModelLogistic.compute(stimulus, guess_rate, lapse_rate, threshold, slope)
ComputeLogistic(stimulus, guess_rate, lapse_rate, threshold, slope) ==
    Compute(stimulus, threshold, slope, guess_rate, lapse_rate)

\* ModelWeibull.compute
ComputeWeibull(stimulus, guess_rate, lapse_rate, threshold, slope) ==
    Compute(stimulus, threshold, slope, guess_rate, lapse_rate)

\* ModelNormal.compute: the arguments go to _compute in another order
ComputeNormal(stimulus, guess_rate, lapse_rate, threshold, slope) ==
    Compute(stimulus, guess_rate, lapse_rate, threshold, slope)

ModelCompute(m, stimulus, guess_rate, lapse_rate, threshold, slope) ==
    CASE m = "Logistic" ->
            ComputeLogistic(stimulus, guess_rate, lapse_rate, threshold, slope)
      [] m = "Weibull" ->
            ComputeWeibull(stimulus, guess_rate, lapse_rate, threshold, slope)
      [] OTHER ->
            ComputeNormal(stimulus, guess_rate, lapse_rate, threshold, slope)

\* The parameter grid: thresholds 1/4 and 2/4, slope 1, guess and lapse rate
\* 1/4 (every value in quarters); each row passes const_positive and const_01.
GridParam ==
    << [threshold |-> 1, slope |-> 4, guess_rate |-> 1, lapse_rate |-> 1],
       [threshold |-> 2, slope |-> 4, guess_rate |-> 1, lapse_rate |-> 1] >>
NTheta == Len(GridParam)

\* Likelihood clipping to [eps, 1 - eps], eps one eighth here.
Clip(p) == Max(1, Min(7, p))

\* P[d, theta, y] in eighths for the design value st (a stimulus, in
\* quarters), parameter row t and response y: p(y = 1) is the model's compute.
Lik(m, st, t, y) ==
    LET th == GridParam[t]
        p1 == ModelCompute(m, st, th.guess_rate, th.lapse_rate,
                           th.threshold, th.slope)
    IN  IF y = 1 THEN Clip(p1) ELSE Clip(8 - p1)

\* ------------------------------------------------------- grid helpers
\* the design values a caller may pass to update: those of the grids and one
\* beyond them
Stimuli == 0..MaxND
\* every design value of the model
StimulusDomain == 0..Max(MaxND, ScenarioRows - 1)

\* the likelihood tensor P[d, theta, y], by design value, computed once
PTable ==
    [m \in ModelNames |-> [st \in StimulusDomain |->
        [t \in 1..NTheta |-> [y \in ResponseSet |-> Lik(m, st, t, y)]]]]

\* H_cond_raw[d, theta] * 8 = 8 log 8 - sum_y P log P, computed once
HCondRaw ==
    [m \in ModelNames |-> [st \in StimulusDomain |-> [t \in 1..NTheta |->
        XLogX(8) - Sum([j \in 1..Len(Responses) |->
                            XLogX(Lik(m, st, t, Responses[j]))])]]]

\* get_random_design_index(grid): any row index of the grid
RandomDesignIndices(grid) == 0..(Len(grid) - 1)

\* get_nearest_grid_index(design, grid): the index of the grid row nearest
\* to the design (Euclidean distance, one design variable), the lowest such
\* index when several rows are equally near (argmin)
get_nearest_grid_index(design, grid) ==
    LET n == Len(grid)
        dist(i) == Abs(grid[i + 1] - design)
    IN  CHOOSE i \in 0..(n - 1) :
            /\ \A j \in 0..(n - 1) : dist(i) <= dist(j)
            /\ \A j \in 0..(i - 1) : dist(j) > dist(i)

\* (mutant) the index of the last largest entry
ArgMaxLast(v) ==
    CHOOSE i \in 0..(Len(v) - 1) :
        /\ \A j \in 0..(Len(v) - 1) : v[i + 1] >= v[j + 1]
        /\ \A j \in (i + 1)..(Len(v) - 1) : v[j + 1] < v[i + 1]

\* np.argmax(v): the 0-based index of the first largest entry
ArgMax(v) ==
    CHOOSE i \in 0..(Len(v) - 1) :
        /\ \A j \in 0..(Len(v) - 1) : v[i + 1] >= v[j + 1]
        /\ \A j \in 0..(i - 1) : v[j + 1] < v[i + 1]

\* ------------------------------------------- posterior and information
\* Q[d, y] * 8 * W: the marginal weight of response y at design value st
Marginal(m, st, post, y) ==
    Sum([t \in 1..NTheta |-> PTable[m][st][t][y] * post[t]])

\* 8 * W * I(Y_d; Theta) in fixed point, for the design value st:
\*   T log T - sum_y a_y log a_y - sum_t w_t (8 log 8 - sum_y p log p)
\* with a_y the marginal weights, T = 8 W their sum and p = P[d, t, y].
MutualInfoAt(m, st, post) ==
    LET marg == Sum([j \in 1..Len(Responses) |->
                        XLogX(Marginal(m, st, post, Responses[j]))])
        cond == Sum([t \in 1..NTheta |-> post[t] * HCondRaw[m][st][t]])
    IN  XLogX(8 * Sum(post)) - marg - cond

\* the mutual-information vector over the rows of the design grid
MutualInfo(m, grid, post) ==
    [d \in 1..Len(grid) |-> MutualInfoAt(m, grid[d], post)]

\* the posterior weights divided by their greatest common divisor
Normalize(post) ==
    LET g == GCDTo(post, Len(post))
    IN  [t \in 1..Len(post) |-> post[t] \div g]

\* Bayes' rule on observing response y at design value st:
\* l <- l + log P[i, :, j], on the weights exp(l)
Posterior(m, st, post, y) ==
    Normalize([t \in 1..NTheta |-> post[t] * PTable[m][st][t][y]])

\* ----------------------------------------------------------- EnginePsi
VARIABLES
    engine,       \* the EnginePsi object: its fields
    last,         \* the outcome of the last call made on engine
    num_updates,  \* updates made so far (bounds the run)
    issued,       \* scenario: the row indices get_design returned, in order
    twin,         \* a second EnginePsi object, given the same calls as engine
    twin_last,    \* the outcome of the last call made on twin
    instance,     \* descriptors: each class's own _instance attribute
    heap,         \* descriptors: the objects made so far, with their fields
    held          \* descriptors: the references callers hold, each with the
                  \* class called and the name, key and labels read through
                  \* it when it was returned
VARIABLE
    call          \* a call of a function of its arguments only: the function,
                  \* the arguments and, once it returned, the result

Kinds == {"optimal", "staircase", "random"}
\* the kinds a caller may pass, one of them unknown
KindInputs == Kinds \cup {"bogus"}
\* the responses a caller may pass, one of them outside the alphabet
ResponseInputs == ResponseSet \cup {2}
\* the values a caller may assign to d_step: the integers -1 .. MaxStep and
\* one value that is no integer (val is its integer part)
StepInputs ==
    [isint : {TRUE}, val : (0 - 1)..MaxStep] \cup {[isint |-> FALSE, val |-> 1]}

\* the outcome of a call: the call and its argument (a kind, a response),
\* whether it returned (ok) or raised, and the row index of the design
\* get_design returned (-1 when there is none).  again is set by the caller:
\* a get_design made right after another get_design.
Outcome(op, kind, y, ok, ret) ==
    [op |-> op, kind |-> kind, y |-> y, ok |-> ok, ret |-> ret, again |-> FALSE]
NoCall == Outcome("init", "none", 0 - 1, TRUE, 0 - 1)

\* Engine._update_mutual_info: recompute the cache when an update made it stale
update_mutual_info(e) ==
    IF e.flag_update_mutual_info
    THEN [e EXCEPT !.mutual_info = MutualInfo(e.model, e.grid_design, e.post),
                   !.flag_update_mutual_info = FALSE]
    ELSE e

\* (mutant) a new engine has no response yet: y_obs_prev is 0
NewEngineNoResponse(m, grid, prior, idx0, step) ==
    [model |-> m, grid_design |-> grid, post |-> prior,
     mutual_info |-> <<>>, flag_update_mutual_info |-> TRUE,
     idx_opt |-> idx0, y_obs_prev |-> 0, d_step |-> step]

\* EnginePsi.__init__ (after Engine.__init__): idx_opt is a random row index,
\* y_obs_prev is 1; the cache holds nothing yet
NewEngine(m, grid, prior, idx0, step) ==
    [model |-> m, grid_design |-> grid, post |-> prior,
     mutual_info |-> <<>>, flag_update_mutual_info |-> TRUE,
     idx_opt |-> idx0, y_obs_prev |-> 1, d_step |-> step]

\* (mutant) the step up is s, as the step down
StaircaseIdxSymmetric(idx, y, s, n) ==
    IF y = 1 THEN Max(0, idx - s)
    ELSE Min(n - 1, idx + s)

\* (mutant) the step up is clamped to the number of rows, not to the last index
StaircaseIdxOffByOne(idx, y, s, n) ==
    IF y = 1 THEN Max(0, idx - s)
    ELSE Min(n, idx + (s * 2))

\* the staircase step of get_design: the index of the next design
StaircaseIdx(idx, y, s, n) ==
    IF y = 1 THEN Max(0, idx - s)
    ELSE Min(n - 1, idx + (s * 2))

\* (mutant) the staircase steps from the optimal row, not from idx_opt
SelectIdxStaircaseFromOptimal(e, kind, rnd) ==
    CASE kind = "optimal" -> ArgMax(e.mutual_info)
      [] kind = "staircase" ->
            StaircaseIdx(ArgMax(e.mutual_info), e.y_obs_prev, e.d_step,
                         Len(e.grid_design))
      [] OTHER -> rnd

\* (mutant) the optimal design is sought among the rows other than the one
\* selected last
SelectIdxNoRepeat(e, kind, rnd) ==
    CASE kind = "optimal" ->
            IF Len(e.grid_design) > 1 /\ ArgMax(e.mutual_info) = e.idx_opt
            THEN (e.idx_opt + 1) % Len(e.grid_design)
            ELSE ArgMax(e.mutual_info)
      [] kind = "staircase" ->
            StaircaseIdx(e.idx_opt, e.y_obs_prev, e.d_step, Len(e.grid_design))
      [] OTHER -> rnd

\* the row index get_design selects for a valid kind; rnd is the index drawn
\* by get_random_design_index
SelectIdx(e, kind, rnd) ==
    CASE kind = "optimal" -> ArgMax(e.mutual_info)
      [] kind = "staircase" ->
            StaircaseIdx(e.idx_opt, e.y_obs_prev, e.d_step, Len(e.grid_design))
      [] OTHER -> rnd

\* (mutant) every kind passes the check
ValidKindAny(kind) == TRUE

\* the kinds get_design accepts: its assertion, and the branches before its
\* last one
ValidKind(kind) == kind \in Kinds

\* (mutant) a selection leaves idx_opt as it was
StoreIdxOptKeeps(e, pos) == e

\* (mutant) idx_opt counts the rows from 1
StoreIdxOptOneBased(e, pos) ==
    [e EXCEPT !.idx_opt = get_nearest_grid_index(e.grid_design[pos + 1],
                                                 e.grid_design) + 1]

\* (mutant) the selection uses up the stored response
StoreIdxOptResetsResponse(e, pos) ==
    [e EXCEPT !.idx_opt = get_nearest_grid_index(e.grid_design[pos + 1],
                                                 e.grid_design),
              !.y_obs_prev = 1]

\* get_design's last statement: idx_opt becomes the nearest grid index of
\* the design it returns, the row at position pos
StoreIdxOpt(e, pos) ==
    [e EXCEPT !.idx_opt = get_nearest_grid_index(e.grid_design[pos + 1],
                                                 e.grid_design)]

\* grid_design.iloc[i] on a grid of n rows: the position of the row, counted
\* from the end for a negative i; -1 stands for the IndexError of a position
\* outside the grid
Iloc(i, n) ==
    IF i >= 0 /\ i < n THEN i
    ELSE IF i < 0 /\ i + n >= 0 THEN i + n
    ELSE 0 - 1

\* (mutant) only a staircase selection stores the index of its design
get_designStaircaseStores(e, kind, rnd, dbg) ==
    IF dbg /\ ~ValidKind(kind)
    THEN [self |-> e, out |-> Outcome("get_design", kind, 0 - 1, FALSE, 0 - 1)]
    ELSE LET e1 == update_mutual_info(e)
         IN  IF ~ValidKind(kind)
             THEN [self |-> e1,
                   out |-> Outcome("get_design", kind, 0 - 1, FALSE, 0 - 1)]
             ELSE LET i == SelectIdx(e1, kind, rnd)
                      pos == Iloc(i, Len(e1.grid_design))
                  IN  IF pos < 0
                      THEN [self |-> e1,
                            out |-> Outcome("get_design", kind, 0 - 1, FALSE, 0 - 1)]
                      ELSE [self |-> IF kind = "staircase"
                                     THEN StoreIdxOpt(e1, pos) ELSE e1,
                            out |-> Outcome("get_design", kind, 0 - 1, TRUE, pos)]

\* EnginePsi.get_design(kind): the engine after the call and the outcome.
\* dbg: assert statements are executed (the interpreter runs without -O);
\* an unknown kind then fails the assertion, and otherwise reaches the raise
\* of the last branch, after the cache was refreshed.
get_design(e, kind, rnd, dbg) ==
    IF dbg /\ ~ValidKind(kind)
    THEN [self |-> e, out |-> Outcome("get_design", kind, 0 - 1, FALSE, 0 - 1)]
    ELSE LET e1 == update_mutual_info(e)
         IN  IF ~ValidKind(kind)
             THEN [self |-> e1,
                   out |-> Outcome("get_design", kind, 0 - 1, FALSE, 0 - 1)]
             ELSE LET i == SelectIdx(e1, kind, rnd)
                      pos == Iloc(i, Len(e1.grid_design))
                  IN  IF pos < 0
                      THEN [self |-> e1,
                            out |-> Outcome("get_design", kind, 0 - 1, FALSE, 0 - 1)]
                      ELSE [self |-> StoreIdxOpt(e1, pos),
                            out |-> Outcome("get_design", kind, 0 - 1, TRUE, pos)]

\* Engine.update(design, response): a response outside the alphabet is an
\* error; otherwise the design is matched to its nearest grid row, the
\* posterior takes the likelihood of the response there, the cache goes stale
EngineUpdate(e, design, response) ==
    IF response \notin ResponseSet
    THEN [self |-> e, ok |-> FALSE]
    ELSE LET i == get_nearest_grid_index(design, e.grid_design)
         IN  [self |-> [e EXCEPT
                  !.post = Posterior(e.model, e.grid_design[i + 1], e.post, response),
                  !.flag_update_mutual_info = TRUE],
              ok |-> TRUE]

\* (mutant) the update moves the staircase index to the design it was given
updateMovesIndex(e, design, response) ==
    LET r == EngineUpdate(e, design, response)
    IN  IF ~r.ok
        THEN [self |-> r.self, out |-> Outcome("update", "none", response, FALSE, 0 - 1)]
        ELSE [self |-> [r.self EXCEPT
                          !.y_obs_prev = response,
                          !.idx_opt = get_nearest_grid_index(design,
                                                             e.grid_design)],
              out |-> Outcome("update", "none", response, TRUE, 0 - 1)]

\* (mutant) the response is stored before the base update is called
updateStoresFirst(e, design, response) ==
    LET e0 == [e EXCEPT !.y_obs_prev = response]
        r == EngineUpdate(e0, design, response)
    IN  [self |-> r.self,
         out |-> Outcome("update", "none", response, r.ok, 0 - 1)]

RECURSIVE StaircaseCalls(_, _)
\* the engine after k calls of get_design('staircase') in a row
StaircaseCalls(e, k) ==
    IF k = 0 THEN e
    ELSE StaircaseCalls(get_design(e, "staircase", 0, TRUE).self, k - 1)

\* EnginePsi.update(design, response): the base update, then the response is
\* stored for the staircase
update(e, design, response) ==
    LET r == EngineUpdate(e, design, response)
    IN  IF ~r.ok
        THEN [self |-> r.self, out |-> Outcome("update", "none", response, FALSE, 0 - 1)]
        ELSE [self |-> [r.self EXCEPT !.y_obs_prev = response],
              out |-> Outcome("update", "none", response, TRUE, 0 - 1)]

\* (mutant) the d_step setter turns down the negative values only
set_d_step_nonneg(e, value) ==
    IF ~value.isint \/ value.val < 0
    THEN [self |-> e, out |-> Outcome("d_step", "none", 0 - 1, FALSE, 0 - 1)]
    ELSE [self |-> [e EXCEPT !.d_step = value.val],
          out |-> Outcome("d_step", "none", 0 - 1, TRUE, 0 - 1)]

\* the d_step setter
set_d_step(e, value) ==
    IF ~value.isint \/ value.val <= 0
    THEN [self |-> e, out |-> Outcome("d_step", "none", 0 - 1, FALSE, 0 - 1)]
    ELSE [self |-> [e EXCEPT !.d_step = value.val],
          out |-> Outcome("d_step", "none", 0 - 1, TRUE, 0 - 1)]

\* the design grid of n rows: the stimulus values 0 .. n - 1 in ascending
\* order (the rows of a grid are distinct)
Grid(n) == [i \in 1..n |-> i - 1]
\* the design grids: 1 to MaxND rows
Grids == {Grid(n) : n \in 1..MaxND}
\* the prior: uniform
UniformPrior == [t \in 1..NTheta |-> 1]
\* the priors: uniform, or user-supplied weights
Priors == {Normalize(w) : w \in [1..NTheta -> 1..MaxPrior]}

\* the priors favouring one threshold of the grid over the other
SkewedPriors == {<<1, 2>>, <<2, 1>>}

vars == <<engine, last, num_updates, issued, twin, twin_last,
          instance, heap, held, call>>
metaVars == <<instance, heap, held>>

\* the values of the variables a specification does not use
NoTwin == [model |-> "none"]
IdleScenario == issued = <<>>
IdlePair == twin = NoTwin /\ twin_last = NoCall
IdleEngine == engine = NoTwin /\ last = NoCall /\ num_updates = 0
IdleMeta == instance = <<>> /\ heap = <<>> /\ held = <<>>
IdleCall == call = [fn |-> "none"]

\* EnginePsi(model, designs, params, d_step): __init__ ends by assigning
\* d_step through the setter; when the setter raises, no object is made
EnginePsi(m, grid, prior, idx0, value) ==
    LET r == set_d_step(NewEngine(m, grid, prior, idx0, 0), value)
    IN  IF r.out.ok THEN [self |-> r.self, out |-> NoCall]
        ELSE [self |-> NoTwin,
              out |-> Outcome("init", "none", 0 - 1, FALSE, 0 - 1)]

\* ---- the engine under every call, in any order
Init ==
    /\ \E m \in EngineModels, grid \in Grids, value \in StepInputs :
         \E idx0 \in RandomDesignIndices(grid) :
            LET r == EnginePsi(m, grid, UniformPrior, idx0, value)
            IN  engine = r.self /\ last = r.out
    /\ num_updates = 0
    /\ IdleScenario
    /\ IdlePair
    /\ IdleMeta
    /\ IdleCall

GetDesign ==
    /\ engine # NoTwin
    /\ \E kind \in KindInputs :
      \E rnd \in IF kind = "random" THEN RandomDesignIndices(engine.grid_design)
                 ELSE {0},
         dbg \in IF kind \in Kinds THEN {TRUE} ELSE BOOLEAN :
        LET r == get_design(engine, kind, rnd, dbg)
        IN  /\ engine' = r.self
            /\ last' = [r.out EXCEPT !.again = (last.op = "get_design")]
            /\ UNCHANGED <<num_updates, issued, twin, twin_last, metaVars, call>>

Update ==
    /\ engine # NoTwin
    /\ num_updates < MaxUpdates
    /\ \E design \in Stimuli, response \in ResponseInputs :
        LET r == update(engine, design, response)
        IN  /\ engine' = r.self
            /\ last' = r.out
            /\ num_updates' = IF r.out.ok THEN num_updates + 1 ELSE num_updates
            /\ UNCHANGED <<issued, twin, twin_last, metaVars, call>>

SetDStep ==
    /\ engine # NoTwin
    /\ \E value \in StepInputs :
        LET r == set_d_step(engine, value)
        IN  /\ engine' = r.self
            /\ last' = r.out
            /\ UNCHANGED <<num_updates, issued, twin, twin_last, metaVars, call>>

Next == GetDesign \/ Update \/ SetDStep

Spec == Init /\ [][Next]_vars

\* ---- the staircase scenario: a grid of ScenarioRows rows, s = 1, the
\* staircase index starting at 5; each trial is a get_design('staircase')
\* whose design is passed to update with the next response of the sequence
ScenarioResponses == <<1, 1, 0, 1>>
ScenarioStart == 5

InitScenario ==
    /\ \E m \in EngineModels, prior \in Priors :
          engine = NewEngine(m, Grid(ScenarioRows), prior, ScenarioStart, 1)
    /\ last = NoCall
    /\ num_updates = 0
    /\ issued = <<>>
    /\ IdlePair
    /\ IdleMeta
    /\ IdleCall

TrialSelect ==
    /\ Len(issued) = num_updates
    /\ Len(issued) <= Len(ScenarioResponses)
    /\ LET r == get_design(engine, "staircase", 0, TRUE)
       IN  /\ engine' = r.self
           /\ last' = [r.out EXCEPT !.again = (last.op = "get_design")]
           /\ issued' = Append(issued, r.out.ret)
           /\ UNCHANGED <<num_updates, twin, twin_last, metaVars, call>>

TrialRespond ==
    /\ Len(issued) = num_updates + 1
    /\ num_updates < Len(ScenarioResponses)
    /\ LET r == update(engine, engine.grid_design[issued[Len(issued)] + 1],
                       ScenarioResponses[num_updates + 1])
       IN  /\ engine' = r.self
           /\ last' = r.out
           /\ num_updates' = num_updates + 1
           /\ UNCHANGED <<issued, twin, twin_last, metaVars, call>>

NextScenario == TrialSelect \/ TrialRespond

SpecScenario == InitScenario /\ [][NextScenario]_vars

\* ---- two engines on the same grid, given the same calls: the same kinds
\* and the same responses, each to the design its engine selected last; each
\* draws its own random rows
InitPair ==
    /\ \E step \in 1..MaxStep, prior \in SkewedPriors :
         \E idx0 \in RandomDesignIndices(Grid(MaxND)) :
            /\ engine = NewEngine("Logistic", Grid(MaxND), UniformPrior, idx0, step)
            /\ twin = NewEngine("Logistic", Grid(MaxND), prior, idx0, step)
    /\ last = NoCall
    /\ twin_last = NoCall
    /\ num_updates = 0
    /\ IdleScenario
    /\ IdleMeta
    /\ IdleCall

PairGetDesign ==
    \E kind \in Kinds :
      \E rnd1, rnd2 \in IF kind = "random"
                        THEN RandomDesignIndices(engine.grid_design) ELSE {0} :
        LET r1 == get_design(engine, kind, rnd1, TRUE)
            r2 == get_design(twin, kind, rnd2, TRUE)
        IN  /\ engine' = r1.self
            /\ last' = r1.out
            /\ twin' = r2.self
            /\ twin_last' = r2.out
            /\ UNCHANGED <<num_updates, issued, metaVars, call>>

PairUpdate ==
    /\ num_updates < PairUpdates
    /\ \E response \in ResponseSet :
        LET r1 == update(engine, engine.grid_design[engine.idx_opt + 1], response)
            r2 == update(twin, twin.grid_design[twin.idx_opt + 1], response)
        IN  /\ engine' = r1.self
            /\ last' = r1.out
            /\ twin' = r2.self
            /\ twin_last' = r2.out
            /\ num_updates' = num_updates + 1
            /\ UNCHANGED <<issued, metaVars, call>>

NextPair == PairGetDesign \/ PairUpdate

SpecPair == InitPair /\ [][NextPair]_vars

\* ---- the descriptors: MetaInterface, Task and Model
\* the value of _instance before any construction
None == 0
\* MetaInterface, Task, Model, and a subclass of Task and of Model that
\* inherits its base's __init__
Classes == {"MetaInterface", "Task", "Model", "SubTask", "SubModel"}
\* the classes an attribute of cls is looked up in, in order
MRO(cls) ==
    CASE cls = "MetaInterface" -> <<cls>>
      [] cls = "SubTask" -> <<cls, "Task", "MetaInterface">>
      [] cls = "SubModel" -> <<cls, "Model", "MetaInterface">>
      [] OTHER -> <<cls, "MetaInterface">>
\* cls is base or one of its subclasses
IsSubclass(cls, base) == \E k \in 1..Len(MRO(cls)) : MRO(cls)[k] = base

RECURSIVE ClassAttrFrom(_, _, _)
ClassAttrFrom(inst, mro, k) ==
    IF k > Len(mro) THEN None
    ELSE IF inst[mro[k]] # None THEN inst[mro[k]]
    ELSE ClassAttrFrom(inst, mro, k + 1)
\* cls._instance: the attribute of the class itself when it was assigned,
\* else the one inherited, else the None of MetaInterface
ClassAttr(inst, cls) == ClassAttrFrom(inst, MRO(cls), 1)

\* isinstance(obj, cls)
IsInstance(hp, obj, cls) ==
    /\ obj # None
    /\ IsSubclass(hp[obj].cls, cls)

\* object.__new__(cls): an object with no attribute set yet
Blank(cls) == [cls |-> cls, name |-> "", key |-> "", labels |-> <<>>,
               task |-> None]

\* (mutant) __new__ makes an object only when the _instance it finds is None
NewIfNone(inst, hp, cls) ==
    IF ClassAttr(inst, cls) = None
    THEN [obj |-> Len(hp) + 1,
          instance |-> [inst EXCEPT ![cls] = Len(hp) + 1],
          heap |-> Append(hp, Blank(cls))]
    ELSE [obj |-> ClassAttr(inst, cls), instance |-> inst, heap |-> hp]

\* MetaInterface.__new__
New(inst, hp, cls) ==
    IF ~IsInstance(hp, ClassAttr(inst, cls), cls)
    THEN [obj |-> Len(hp) + 1,
          instance |-> [inst EXCEPT ![cls] = Len(hp) + 1],
          heap |-> Append(hp, Blank(cls))]
    ELSE [obj |-> ClassAttr(inst, cls), instance |-> inst, heap |-> hp]

\* MetaInterface.__init__, Task.__init__, Model.__init__: the fields are
\* assigned from the arguments
InitObj(o, name, key, labels, task) ==
    [o EXCEPT !.name = name, !.key = key,
              !.labels = IF o.cls = "MetaInterface" THEN <<>> ELSE labels,
              !.task = IF IsSubclass(o.cls, "Model") THEN task ELSE None]

\* the properties name, key and design (Task) or param (Model)
Fields(o) == [name |-> o.name, key |-> o.key, labels |-> o.labels]

\* the name and key arguments
NameKeys == {<<"Task A", "a">>, <<"Task B", "b">>}
LabelLists == {<<"d1", "d2">>, <<"d3">>}
\* the Task objects made so far
TaskObjects(hp) == {i \in 1..Len(hp) : IsSubclass(hp[i].cls, "Task")}

InitMeta ==
    /\ instance = [c \in Classes |-> None]
    /\ heap = <<>>
    /\ held = <<>>
    /\ IdleEngine
    /\ IdleScenario
    /\ IdlePair
    /\ IdleCall

\* cls(name, key, ...): __new__, then __init__ on the object __new__ returned
Construct ==
    /\ Len(held) < MaxConstructs
    /\ \E cls \in Classes, nk \in NameKeys :
       \E labels \in IF cls = "MetaInterface" THEN {<<>>} ELSE LabelLists,
          task \in IF IsSubclass(cls, "Model") THEN TaskObjects(heap) \cup {None}
                   ELSE {None} :
         LET n == New(instance, heap, cls)
             o == InitObj(n.heap[n.obj], nk[1], nk[2], labels, task)
         IN  /\ instance' = n.instance
             /\ heap' = [n.heap EXCEPT ![n.obj] = o]
             /\ held' = Append(held, [cls |-> cls, obj |-> n.obj,
                                      read |-> Fields(o)])
             /\ UNCHANGED <<engine, last, num_updates, issued, twin, twin_last, call>>

NextMeta == Construct

SpecMeta == InitMeta /\ [][NextMeta]_vars

\* ---- the psychometric functions: compute of the three models, applied to
\* arguments in quarters
ComputeStimuli == 0..MaxND
ComputeRates == {0, 1}
ComputeThresholds == {1, 2}
ComputeSlopes == {2, 4}
\* the value of a result before the call returned
NoResult == 0 - 1

InitCompute ==
    /\ \E m \in ModelNames, st \in ComputeStimuli, gr, lr \in ComputeRates,
          th \in ComputeThresholds, sl \in ComputeSlopes :
         call = [fn |-> m, stimulus |-> st, guess_rate |-> gr,
                 lapse_rate |-> lr, threshold |-> th, slope |-> sl,
                 result |-> NoResult]
    /\ IdleEngine
    /\ IdleScenario
    /\ IdlePair
    /\ IdleMeta

\* model.compute(stimulus, guess_rate, lapse_rate, threshold, slope)
ApplyCompute ==
    /\ call.result = NoResult
    /\ call' = [call EXCEPT !.result =
                  ModelCompute(call.fn, call.stimulus, call.guess_rate,
                               call.lapse_rate, call.threshold, call.slope)]
    /\ UNCHANGED <<engine, last, num_updates, issued, twin, twin_last, metaVars>>

NextCompute == ApplyCompute

SpecCompute == InitCompute /\ [][NextCompute]_vars

\* ---- extract_designs and extract_params: MetaInterface._extract_vars
\* a mapping dt is its items in key order, each a pair <<key, value>>; the
\* keys of a mapping are distinct
DtKeys == {"d1", "d2", "d3", "x"}
DtValues == {10, 20}
IsMapping(items) ==
    \A i, j \in 1..Len(items) : items[i][1] = items[j][1] => i = j
Mappings ==
    UNION {{items \in [1..n -> DtKeys \X DtValues] : IsMapping(items)} :
           n \in 0..MaxKeys}
\* the declared labels of the descriptor
DeclaredLabels == LabelLists \cup {<<"d2", "d1">>}

HasKey(items, k) == \E i \in 1..Len(items) : items[i][1] = k
\* dt[k]
GetItem(items, k) == items[CHOOSE i \in 1..Len(items) : items[i][1] = k][2]
\* ret[k] = v on an OrderedDict: a new key goes to the end, a key already
\* there keeps its place
SetItem(items, k, v) ==
    IF HasKey(items, k)
    THEN [i \in 1..Len(items) |->
            IF items[i][1] = k THEN <<k, v>> ELSE items[i]]
    ELSE Append(items, <<k, v>>)

RECURSIVE ExtractVarsDtOrderFrom(_, _, _, _)
ExtractVarsDtOrderFrom(dt, keys, i, ret) ==
    IF i > Len(dt) THEN [ok |-> TRUE, ret |-> ret]
    ELSE IF \E j \in 1..Len(keys) : keys[j] = dt[i][1]
    THEN ExtractVarsDtOrderFrom(dt, keys, i + 1,
                                SetItem(ret, dt[i][1], dt[i][2]))
    ELSE ExtractVarsDtOrderFrom(dt, keys, i + 1, ret)
\* (mutant) the items of dt whose key is declared, in the order of dt
ExtractVarsDtOrder(dt, keys) == ExtractVarsDtOrderFrom(dt, keys, 1, <<>>)

RECURSIVE ExtractVarsFrom(_, _, _, _)
\* the loop of _extract_vars from the i-th key on; dt[k] raises KeyError for
\* a key dt does not hold
ExtractVarsFrom(dt, keys, i, ret) ==
    IF i > Len(keys) THEN [ok |-> TRUE, ret |-> ret]
    ELSE IF ~HasKey(dt, keys[i]) THEN [ok |-> FALSE, ret |-> <<>>]
    ELSE ExtractVarsFrom(dt, keys, i + 1,
                         SetItem(ret, keys[i], GetItem(dt, keys[i])))
\* MetaInterface._extract_vars(dt, keys), dt a dict
ExtractVars(dt, keys) == ExtractVarsFrom(dt, keys, 1, <<>>)

InitExtract ==
    /\ \E fn \in {"extract_designs", "extract_params"},
          labels \in DeclaredLabels, dt \in Mappings :
         call = [fn |-> fn, labels |-> labels, dt |-> dt, done |-> FALSE,
                 ok |-> FALSE, ret |-> <<>>]
    /\ IdleEngine
    /\ IdleScenario
    /\ IdlePair
    /\ IdleMeta

\* task.extract_designs(dt), model.extract_params(dt)
ApplyExtract ==
    /\ ~call.done
    /\ LET r == ExtractVars(call.dt, call.labels)
       IN  call' = [call EXCEPT !.done = TRUE, !.ok = r.ok, !.ret = r.ret]
    /\ UNCHANGED <<engine, last, num_updates, issued, twin, twin_last, metaVars>>

NextExtract == ApplyExtract

SpecExtract == InitExtract /\ [][NextExtract]_vars

\* ------------------------------------------------------------- claims
\* the step is a call of get_design with the given kind
IsGetDesign(kind) == last'.op = "get_design" /\ last'.kind = kind
NRows == IF engine = NoTwin THEN 0 ELSE Len(engine.grid_design)
\* the fields of the engine that get_design may not change
Belief(e) == <<e.model, e.grid_design, e.post, e.y_obs_prev, e.d_step>>
\* the staircase state and the posterior
StaircaseAndPosterior(e) == <<e.idx_opt, e.y_obs_prev, e.d_step, e.post>>

\* C1: get_design('staircase') returns the design at index
\* max(0, idx_prev - s) when y_prev = 1 and at index
\* min(N_D - 1, idx_prev + 2 s) otherwise, whatever idx_prev and s are.
C1_StaircaseStep ==
    [][IsGetDesign("staircase") =>
        /\ last'.ok
        /\ last'.ret = IF engine.y_obs_prev = 1
                       THEN Max(0, engine.idx_opt - engine.d_step)
                       ELSE Min(NRows - 1, engine.idx_opt + 2 * engine.d_step)
      ]_vars

\* a staircase call after a response of 0 that stepped up to row 2 of three
\* rows with s = 1 (from row 0 by 2 s, or from row 1 clamped)
C1_Witness ==
    /\ last.op = "get_design" /\ last.kind = "staircase" /\ last.ok
    /\ engine.y_obs_prev = 0
    /\ engine.d_step = 1
    /\ NRows = 3
    /\ last.ret = 2

\* C3: get_design('optimal') returns the row whose mutual information under
\* the current posterior is largest, the lowest such row on a tie.
C3_OptimalIsFirstMax ==
    (last.op = "get_design" /\ last.kind = "optimal") =>
        LET mi == MutualInfo(engine.model, engine.grid_design, engine.post)
        IN  /\ last.ok
            /\ \A d \in 0..(NRows - 1) : mi[last.ret + 1] >= mi[d + 1]
            /\ \A d \in 0..(last.ret - 1) : mi[d + 1] < mi[last.ret + 1]

\* an optimal call after an update, with two rows sharing the largest
\* mutual information
C3_Witness ==
    /\ last.op = "get_design" /\ last.kind = "optimal"
    /\ num_updates > 0
    /\ \E d \in (last.ret + 1)..(NRows - 1) :
          engine.mutual_info[d + 1] = engine.mutual_info[last.ret + 1]
    /\ \E d \in 0..(NRows - 1) :
          engine.mutual_info[d + 1] < engine.mutual_info[last.ret + 1]

\* C4: a get_design call of any kind leaves the posterior and the stored
\* previous response (and the model, the grid and the step size) unchanged;
\* only the cache and the staircase index may change.
C4_GetDesignKeepsBelief ==
    [][last'.op = "get_design" => Belief(engine') = Belief(engine)]_vars

\* a get_design that returned, on a posterior moved by an update whose
\* response was 0
C4_Witness ==
    /\ last.op = "get_design" /\ last.ok
    /\ engine.y_obs_prev = 0
    /\ engine.post # UniformPrior

\* C5: get_design with an unknown kind raises and returns no design, and
\* leaves the staircase state and the posterior unchanged.
C5_UnknownKindFails ==
    [][(last'.op = "get_design" /\ last'.kind \notin Kinds) =>
        /\ ~last'.ok
        /\ last'.ret = 0 - 1
        /\ StaircaseAndPosterior(engine') = StaircaseAndPosterior(engine)
      ]_vars

\* an unknown kind was refused after an update, the cache refreshed on the
\* way (assertions off)
C5_Witness ==
    /\ last.op = "get_design" /\ last.kind = "bogus" /\ ~last.ok
    /\ num_updates > 0
    /\ ~engine.flag_update_mutual_info

\* C6: update with a response outside {0, 1} raises and leaves the posterior
\* and the stored previous response unchanged, so the stored response is
\* always one of the alphabet.
C6_BadResponseFails ==
    [][(last'.op = "update" /\ last'.y \notin ResponseSet) =>
        /\ ~last'.ok
        /\ engine'.post = engine.post
        /\ engine'.y_obs_prev = engine.y_obs_prev
        /\ engine'.y_obs_prev \in ResponseSet
      ]_vars

\* a refused update in an engine whose stored response is 0
C6_Witness ==
    /\ last.op = "update" /\ last.y = 2 /\ ~last.ok
    /\ engine.y_obs_prev = 0

\* C7: get_design with a valid kind returns in every state; an optimal call
\* made while the cache is fresh (a selection was made since the last update)
\* returns the argmax of that cache and leaves it as it is; and an optimal
\* call right after an optimal call returns the same design.
C7_NoAlternationNeeded ==
    [][(last'.op = "get_design" /\ last'.kind \in Kinds) =>
        /\ last'.ok
        /\ (last'.kind = "optimal" /\ ~engine.flag_update_mutual_info) =>
              /\ last'.ret = ArgMax(engine.mutual_info)
              /\ engine'.mutual_info = engine.mutual_info
        /\ (last'.kind = "optimal" /\ last.op = "get_design"
              /\ last.kind = "optimal") => last'.ret = last.ret
      ]_vars

\* an optimal call made right after another get_design, before any update,
\* from a staircase index other than the optimum
C7_Witness ==
    /\ last.op = "get_design" /\ last.kind = "optimal" /\ last.ok /\ last.again
    /\ num_updates = 0
    /\ last.ret > 0

\* C9: on a grid of one row every get_design of a valid kind returns that
\* row, whatever the previous response and the step size.
C9_SingleRow ==
    [][(NRows = 1 /\ last'.op = "get_design" /\ last'.kind \in Kinds) =>
        /\ last'.ok
        /\ last'.ret = 0
        /\ engine'.idx_opt = 0
      ]_vars

\* a staircase call on a one-row grid after a response of 0, with the
\* largest step
C9_Witness ==
    /\ NRows = 1
    /\ last.op = "get_design" /\ last.kind = "staircase" /\ last.ok
    /\ engine.y_obs_prev = 0
    /\ engine.d_step = MaxStep

\* C2 (as stated): the trials of the scenario issue the rows 5, 4, 3, 5, 4.
C2_AsClaimed ==
    Len(issued) = Len(ScenarioResponses) + 1 => issued = <<5, 4, 3, 5, 4>>

\* C2 (amended): the trials of the scenario issue the rows 4, 3, 2, 4, 3: the
\* new engine's stored response is 1, so the first selection already steps
\* down from the starting index 5; the staircase index follows each issued row.
C2_ScenarioIndices ==
    /\ \A k \in 1..Len(issued) : issued[k] = <<4, 3, 2, 4, 3>>[k]
    /\ engine.idx_opt = IF issued = <<>> THEN ScenarioStart
                        ELSE issued[Len(issued)]

\* the scenario ran to its end: five selections, four responses
C2_Witness ==
    /\ Len(issued) = Len(ScenarioResponses) + 1
    /\ num_updates = Len(ScenarioResponses)
    /\ last.op = "get_design" /\ last.kind = "staircase" /\ last.ok

\* the staircase state of an engine, with its grid
Staircase(e) == <<e.grid_design, e.idx_opt, e.y_obs_prev, e.d_step>>

\* C8: two engines with the same grid, staircase index, previous response
\* and step size return the same design from get_design('staircase') and end
\* with the same staircase index, whatever their posteriors are.
C8_StaircaseIgnoresPosterior ==
    [][(IsGetDesign("staircase") /\ Staircase(engine) = Staircase(twin)) =>
        /\ last'.ok /\ twin_last'.ok
        /\ last'.ret = twin_last'.ret
        /\ engine'.idx_opt = twin'.idx_opt
      ]_vars

\* both engines stepped down from row 2 to row 1 of three (s = 1, previous
\* response 1) with different posteriors and different optimal rows
C8_Witness ==
    /\ last.op = "get_design" /\ last.kind = "staircase"
    /\ NRows = 3 /\ engine.d_step = 1 /\ engine.y_obs_prev = 1
    /\ last.ret = 1 /\ twin_last.ret = 1
    /\ engine.post # twin.post
    /\ ArgMax(engine.mutual_info) # ArgMax(twin.mutual_info)

\* C10 (as stated): the name, key and labels read through a reference to a
\* constructed Task or Model stay what they were when it was constructed,
\* under any later constructions.
C10_DescriptorImmutable ==
    \A k \in 1..Len(held) :
        IsSubclass(heap[held[k].obj].cls, "Task")
          \/ IsSubclass(heap[held[k].obj].cls, "Model") =>
            Fields(heap[held[k].obj]) = held[k].read

\* the objects of exactly the class cls
ObjectsOf(cls) == {i \in 1..Len(heap) : heap[i].cls = cls}

\* C11: after any constructions in the hierarchy each class has made at most
\* one object, every construction returned an object of exactly the class
\* called, and two constructions of one class returned the same object (so
\* two Task constructions with identical fields compare equal).
C11_SingleInstance ==
    /\ \A c \in Classes : Cardinality(ObjectsOf(c)) <= 1
    /\ \A k \in 1..Len(held) : heap[held[k].obj].cls = held[k].cls
    /\ \A j, k \in 1..Len(held) :
          held[j].cls = held[k].cls => held[j].obj = held[k].obj

\* Task, then its subclass, then Task again with the fields of the first
\* call: the subclass got an object of its own, the two Task calls the same
C11_Witness ==
    /\ Len(held) = 3
    /\ held[1].cls = "Task" /\ held[2].cls = "SubTask" /\ held[3].cls = "Task"
    /\ held[1].read = held[3].read
    /\ held[1].obj = held[3].obj /\ held[1].obj # held[2].obj

\* C12 (as stated): for each of the three models compute(stimulus, guess_rate,
\* lapse_rate, threshold, slope) is guess_rate + (1 - guess_rate - lapse_rate)
\* * F(slope * (stimulus - threshold)), here in eighths.
C12_ComputeFormula ==
    call.fn \in ModelNames /\ call.result # NoResult =>
        call.result = 2 * call.guess_rate
                      + (4 - call.guess_rate - call.lapse_rate)
                        * Link(call.slope * (call.stimulus - call.threshold))

\* a value the d_step setter takes: an integer above 0
ValidStep(value) == value.isint /\ value.val > 0

\* C13: the step size of an engine is a positive integer in every reachable
\* state; in each of them an assignment of a value that is no integer or is
\* <= 0 fails and leaves the engine as it was, and a construction with such
\* a value fails and makes no engine.
C13_StepPositive ==
    /\ engine # NoTwin => engine.d_step \in Nat \ {0}
    /\ engine # NoTwin =>
         \A value \in StepInputs :
            LET r == set_d_step(engine, value)
            IN  IF ValidStep(value)
                THEN r.out.ok /\ r.self.d_step = value.val
                ELSE ~r.out.ok /\ r.self = engine
    /\ \A value \in StepInputs, grid \in Grids :
          LET r == EnginePsi("Logistic", grid, UniformPrior, 0, value)
          IN  IF ValidStep(value)
              THEN r.out.ok /\ r.self.d_step = value.val
              ELSE ~r.out.ok /\ r.self = NoTwin
    /\ (last.op = "init" /\ ~last.ok) => engine = NoTwin

\* an assignment was rejected on an engine whose step had been set to MaxStep
C13_Witness ==
    /\ engine # NoTwin
    /\ last.op = "d_step" /\ ~last.ok
    /\ engine.d_step = MaxStep /\ MaxStep > 1

\* C14: in every reachable state of an engine the staircase index is a row
\* index of the design grid, and right after a get_design that returned a
\* design it is the index of the row returned.
C14_IndexValid ==
    engine # NoTwin =>
        /\ engine.idx_opt \in 0..(NRows - 1)
        /\ (last.op = "get_design" /\ last.ok) =>
              /\ engine.idx_opt = last.ret
              /\ engine.grid_design[engine.idx_opt + 1]
                   = engine.grid_design[last.ret + 1]

\* a staircase step up was cut at the last row of a grid of three rows, after
\* an update
C14_Witness ==
    /\ engine # NoTwin
    /\ last.op = "get_design" /\ last.kind = "staircase" /\ last.ok
    /\ engine.y_obs_prev = 0 /\ NRows = 3
    /\ engine.idx_opt = NRows - 1 /\ engine.d_step = MaxStep

C16_UpdateKeepsIndex ==
    [][(last'.op = "update" /\ last'.ok) =>
        /\ engine'.y_obs_prev = last'.y
        /\ engine'.idx_opt = engine.idx_opt
        /\ engine'.d_step = engine.d_step
        /\ get_design(engine', "staircase", 0, TRUE).out.ret
             = StaircaseIdx(engine.idx_opt, last'.y, engine.d_step, NRows)
      ]_vars

\* the first update of an engine was given a design other than the row at
\* the staircase index (the posterior is that of the other design)
C16_Witness ==
    /\ engine # NoTwin
    /\ last.op = "update" /\ last.ok /\ num_updates = 1
    /\ LET fresh == NewEngine(engine.model, engine.grid_design, UniformPrior,
                              engine.idx_opt, engine.d_step)
           own == engine.grid_design[engine.idx_opt + 1]
       IN  /\ engine.post # update(fresh, own, last.y).self.post
           /\ \E d \in Stimuli :
                 engine.post = update(fresh, d, last.y).self.post

\* C17: a get_design of any kind that returns a design stores the index of
\* that design, and a get_design('staircase') right after an optimal or a
\* random selection steps from the row that selection returned.
C17_EveryKindStores ==
    [][/\ (last'.op = "get_design" /\ last'.ok) => engine'.idx_opt = last'.ret
       /\ (/\ last.op = "get_design" /\ last.ok
           /\ last.kind \in {"optimal", "random"}
           /\ IsGetDesign("staircase")) =>
             last'.ret = StaircaseIdx(last.ret, engine.y_obs_prev,
                                      engine.d_step, NRows)
      ]_vars

\* a staircase selection right after another get_design, before any update,
\* returned the row one step below the optimal row, on a grid whose optimal
\* row is not the first
C17_Witness ==
    /\ engine # NoTwin
    /\ last.op = "get_design" /\ last.kind = "staircase" /\ last.again
    /\ num_updates = 0 /\ engine.d_step = 1
    /\ ArgMax(engine.mutual_info) > 0
    /\ last.ret = ArgMax(engine.mutual_info) - 1

\* C18: from every reachable state of an engine, k calls of
\* get_design('staircase') in a row, with no update between them, leave the
\* staircase index at max(0, idx - k s) when the previous response is 1 and
\* at min(N - 1, idx + 2 k s) otherwise: each call steps again.
C18_StaircaseAccumulates ==
    engine # NoTwin =>
        \A k \in 1..MaxCalls :
            StaircaseCalls(engine, k).idx_opt =
                IF engine.y_obs_prev = 1
                THEN Max(0, engine.idx_opt - k * engine.d_step)
                ELSE Min(NRows - 1, engine.idx_opt + 2 * k * engine.d_step)

\* a staircase selection that followed another get_design left the engine at
\* row 1, and one more selection moves it on to row 0
C18_Witness ==
    /\ engine # NoTwin
    /\ last.op = "get_design" /\ last.kind = "staircase" /\ last.again
    /\ engine.y_obs_prev = 1 /\ engine.d_step = 1
    /\ engine.idx_opt = 1
    /\ StaircaseCalls(engine, 1).idx_opt = 0
    /\ StaircaseCalls(engine, 1).idx_opt # engine.idx_opt

====
